---- MODULE Spec2Model ----
(***************************************************************************)
(* Model of crop.py: the Roi rectangle, the RoiWindow editing session      *)
(* (pointer and keyboard handlers) and the part of VideoCropperGUI that    *)
(* owns the per-video ROI map.  Python objects that can be aliased (Roi    *)
(* instances, lists) live in two heaps, so that a list or a Roi shared     *)
(* between the session and the host is one object, as in the program.      *)
(* Python indices are kept 0-based; element idx of a list is seq[idx + 1]. *)
(***************************************************************************)
EXTENDS Integers, Sequences, FiniteSets, TLC

\* ------------------------------------------------------------------ bounds
\* Largest number of ROIs the working list may hold (append/import guards).
MaxRois == 2
\* Largest number of RoiWindow events (pointer, keyboard, menu) in one run.
MaxEvents == 5
\* How far outside the pointer grid a dragged or resized corner may travel.
Margin == 25

\* Pointer coordinates delivered by the event source (canvas pixels).
Xs == {0, 25, 50}
Ys == {0, 25, 50}
Points == { <<0, 0>>, <<25, 25>>, <<50, 50>>, <<25, 0>> }

\* Videos the user can add to the host's list.
VideoSeq == <<"a.mp4">>
Videos == {VideoSeq[i] : i \in 1..Len(VideoSeq)}

\* ------------------------------------------------------- program constants
\* radius = 10 in leftMouseDown
radius == 10

None == <<>>

Min2(a, b) == IF a <= b THEN a ELSE b
Max2(a, b) == IF a >= b THEN a ELSE b

\* ----------------------------------------------------------------- class Roi
\* Roi.__init__
RoiNew ==
    [coordinates |-> << <<0, 0>>, <<0, 0>> >>, height |-> 0, width |-> 0, status |-> FALSE]

\* A sortCoordinates that orders the x values only.
sortCoordinates_xOnly(r) ==
    LET c == r.coordinates IN
    [r EXCEPT !.coordinates =
        << <<Min2(c[1][1], c[2][1]), c[1][2]>>,
           <<Max2(c[1][1], c[2][1]), c[2][2]>> >>]

\* Roi.sortCoordinates
sortCoordinates(r) ==
    LET c == r.coordinates IN
    [r EXCEPT !.coordinates =
        << <<Min2(c[1][1], c[2][1]), Min2(c[1][2], c[2][2])>>,
           <<Max2(c[1][1], c[2][1]), Max2(c[1][2], c[2][2])>> >>]

\* Roi.calculateDimensions
calculateDimensions(r) ==
    [r EXCEPT !.width = r.coordinates[2][1] - r.coordinates[1][1],
              !.height = r.coordinates[2][2] - r.coordinates[1][2]]

\* Roi.setCoordinates(i, x, y, sort)
setCoordinates(r, i, x, y, sort) ==
    LET r1 == [r EXCEPT !.coordinates[i + 1] = <<x, y>>]
        r2 == IF sort THEN sortCoordinates(r1) ELSE r1
    IN calculateDimensions(r2)

\* Roi.setRoi(a, b)
setRoi(r, a, b) ==
    calculateDimensions(sortCoordinates([r EXCEPT !.coordinates = <<a, b>>]))

\* Roi.reset: coordinates and status only, width and height keep their values
reset(r) ==
    [r EXCEPT !.coordinates = << <<0, 0>>, <<0, 0>> >>, !.status = FALSE]

\* A Roi as the program builds it from two corner points.
RoiOf(a, b) == setCoordinates(setCoordinates(RoiNew, 0, a[1], a[2], FALSE), 1, b[1], b[2], FALSE)


\* --------------------------------------------------------------------- heap
\* The n smallest object identities not in used (allocation of new objects).
FreshIds(used, n) ==
    LET free == (1..(Cardinality(used) + n)) \ used
    IN [i \in 1..n |-> CHOOSE id \in free : Cardinality({f \in free : f < id}) = i - 1]

\* The Roi values of list object id, in list order.
ListValue(o, l, id) == [i \in 1..Len(l[id]) |-> o[l[id][i]]]

InSeq(e, s) == \E i \in 1..Len(s) : s[i] = e
IndexOf(e, s) == CHOOSE i \in 1..Len(s) : s[i] = e

\* The elements of s in order of first occurrence.
RECURSIVE uniq(_, _)
uniq(s, acc) ==
    IF s = <<>> THEN acc
    ELSE uniq(Tail(s), IF InSeq(Head(s), acc) THEN acc ELSE Append(acc, Head(s)))

\* Every path that can be a key of roi_dict, in a fixed order.
PathOrder == <<"a.mp4", "b.mp4", "d/a.mp4", "c.avi">>

\* The list objects the program still refers to: the values of roi_dict in the
\* order of PathOrder, then the session's working list rc (0: no session).
RECURSIVE hostRoots(_, _)
hostRoots(rd, k) ==
    IF k > Len(PathOrder) THEN <<>>
    ELSE (IF PathOrder[k] \in DOMAIN rd THEN <<rd[PathOrder[k]]>> ELSE <<>>) \o hostRoots(rd, k + 1)
LiveLists(rd, rc) == uniq(hostRoots(rd, 1) \o (IF rc = 0 THEN <<>> ELSE <<rc>>), <<>>)

\* The Roi objects those lists hold.
RECURSIVE flat(_, _, _)
flat(l, order, k) == IF k > Len(order) THEN <<>> ELSE l[order[k]] \o flat(l, order, k + 1)
LiveObjs(l, rd, rc) == uniq(flat(l, LiveLists(rd, rc), 1), <<>>)

\* copy.deepcopy of a list of Roi: a new list of new Roi objects (o, l extended).
DeepCopyList(o, l, vals) ==
    LET ids == FreshIds(DOMAIN o, Len(vals))
        lid == FreshIds(DOMAIN l, 1)[1]
        newIds == {ids[i] : i \in 1..Len(vals)}
    IN [objs  |-> [id \in (DOMAIN o) \cup newIds |->
                      IF id \in DOMAIN o THEN o[id]
                      ELSE vals[CHOOSE i \in 1..Len(vals) : ids[i] = id]],
        lists |-> [id \in (DOMAIN l) \cup {lid} |-> IF id = lid THEN ids ELSE l[id]],
        list  |-> lid]

\* -------------------------------------------------------------------- state
VARIABLES
    objs,                \* heap of Roi objects: identity -> Roi
    lists,               \* heap of list objects: identity -> sequence of Roi identities
    roi_dict,            \* VideoCropperGUI.roi_dict: video path -> list identity
    working_video_path,  \* VideoCropperGUI.working_video_path ("" when unset)
    treeSelection,       \* the row selected in VideoCropperGUI.tree ("" when none)
    treeRows,            \* the video paths that have a row in VideoCropperGUI.tree
    roiWindow,           \* TRUE while the RoiWindow of the session exists
    roiCoordinates,      \* RoiWindow.roiCoordinates: list identity (0 without session)
    newRoi,              \* RoiWindow.newRoi
    relativeCoordinates, \* RoiWindow.relativeCoordinates: a list or a dict
    saved,               \* RoiWindow.saved
    dragging,            \* RoiWindow.dragging: None or <<idx>>
    resizing,            \* RoiWindow.resizing: None or <<idx, mask>>
    selection,           \* RoiWindow.selection: sequence of indices
    button,              \* mouse button 1 as the event source sees it: "up" or "down"
    lastEvent,           \* history: the handler that ran last and its pointer position
    downSnap,            \* history of the current press: pointer, working list and selection
                         \* at leftMouseDown, the moves since and the last move's pointer
    events,              \* history: number of RoiWindow events handled so far
    openedFor,           \* history: the video the last RoiWindow was opened for
    output_folder,       \* VideoCropperGUI.output_folder ("" when unset)
    progress_window,     \* TRUE while the progress window of crop_video exists
    cropPc,              \* position of crop_video: "idle", "loop", or how the last run ended
    cropVideo,           \* crop_video: index in VideoOrder of the loop's video_path
    cropI,               \* crop_video: i, the 1-based number of the Roi being cropped
    total_crops,         \* crop_video: total_crops
    rendered_video,      \* crop_video: rendered_video
    folders,             \* file system: the per-video subfolders that exist
    submitted,           \* history: the <<video, i>> jobs handed to ffmpeg in this run
    failedJobs,          \* history: the jobs of this run whose ffmpeg call raised
    progress,            \* history: the values of rendered_video at each status_var.set
    errors,              \* history: titles of the error boxes shown in this run
    openCaps,            \* crop_video: videos whose cv2.VideoCapture is open, not released
    cropLog,             \* history: <<"open", v, 0>>, <<"job", v, i>>, <<"release", v, 0>>
    filters              \* history: the crop filter of each job handed to ffmpeg

sessionVars == <<roiWindow, roiCoordinates, newRoi, relativeCoordinates, saved, dragging,
                 resizing, selection, button>>
hostVars == <<roi_dict, working_video_path, treeSelection, treeRows>>
histVars == <<lastEvent, downSnap, events, openedFor>>
batchVars == <<output_folder, progress_window, cropPc, cropVideo, cropI, total_crops,
               rendered_video, folders, submitted, failedJobs, progress, errors,
               openCaps, cropLog, filters>>
vars == <<objs, lists, hostVars, sessionVars, histVars, batchVars>>

\* relativeCoordinates is a list ([] at construction, [dx, dy] on a handle hit) or a
\* dict idx -> [dx, dy] on a body hit.
RelList(s) == [kind |-> "list", list |-> s, dict |-> <<>>]
RelDict(d) == [kind |-> "dict", list |-> <<>>, dict |-> d]

Event(k, arg) == [kind |-> k, arg |-> arg]
NoSnap == [x |-> 0, y |-> 0, rois |-> <<>>, selection |-> <<>>, before |-> <<>>,
           idle |-> FALSE, at |-> 0, moves |-> 0, mx |-> 0, my |-> 0]

\* The working list of the session, as values.
Working == ListValue(objs, lists, roiCoordinates)
\* The host's stored collection of video v, as values.
HostValue(v) == ListValue(objs, lists, roi_dict[v])

\* VideoCropperGUI.__init__ : no video, no ROI, no session window.
Init ==
    /\ objs = <<>>
    /\ lists = <<>>
    /\ roi_dict = <<>>
    /\ working_video_path = ""
    /\ treeSelection = ""
    /\ treeRows = {}
    /\ roiWindow = FALSE
    /\ roiCoordinates = 0
    /\ newRoi = RoiNew
    /\ relativeCoordinates = RelList(<<>>)
    /\ saved = TRUE
    /\ dragging = None
    /\ resizing = None
    /\ selection = <<>>
    /\ button = "up"
    /\ lastEvent = Event("init", <<>>)
    /\ downSnap = NoSnap
    /\ events = 0
    /\ openedFor = ""
    /\ output_folder = ""
    /\ progress_window = FALSE
    /\ cropPc = "idle"
    /\ cropVideo = 0
    /\ cropI = 0
    /\ total_crops = 0
    /\ rendered_video = 0
    /\ folders = {}
    /\ submitted = <<>>
    /\ failedJobs = <<>>
    /\ progress = <<>>
    /\ errors = <<>>
    /\ openCaps = {}
    /\ cropLog = <<>>
    /\ filters = <<>>

\* One more RoiWindow event, within the bound of the model; no RoiWindow handler
\* touches the state of crop_video or the rows of the tree.
Tick == events < MaxEvents /\ events' = events + 1 /\ UNCHANGED <<batchVars, openedFor, treeRows>>

\* Assignment of the heap and of the two references into it.  Objects nothing refers
\* to any more are dropped, and the remaining identities are renumbered in the order
\* they are reached, which keeps every sharing between lists and Roi objects.
Commit(o2, l2, rd2, rc2) ==
    LET lorder == LiveLists(rd2, rc2)
        oorder == LiveObjs(l2, rd2, rc2)
    IN /\ roi_dict' = [v \in DOMAIN rd2 |-> IndexOf(rd2[v], lorder)]
       /\ roiCoordinates' = IF rc2 = 0 THEN 0 ELSE IndexOf(rc2, lorder)
       /\ lists' = [n \in 1..Len(lorder) |->
                      [k \in 1..Len(l2[lorder[n]]) |-> IndexOf(l2[lorder[n]][k], oorder)]]
       /\ objs' = [n \in 1..Len(oorder) |-> o2[oorder[n]]]

\* ------------------------------------------------------------ host handlers
\* VideoCropperGUI.select_video with a valid path: a tree row and an empty ROI list.
select_video(v) ==
    /\ ~roiWindow
    /\ LET lid == FreshIds(DOMAIN lists, 1)[1]
           l2 == [id \in (DOMAIN lists) \cup {lid} |-> IF id = lid THEN <<>> ELSE lists[id]]
           rd2 == [w \in (DOMAIN roi_dict) \cup {v} |-> IF w = v THEN lid ELSE roi_dict[w]]
       IN Commit(objs, l2, rd2, roiCoordinates)
    /\ treeRows' = treeRows \cup {v}
    /\ UNCHANGED <<events, batchVars, openedFor>>
    /\ lastEvent' = Event("select_video", <<>>)
    /\ UNCHANGED <<working_video_path, treeSelection, roiWindow, newRoi, relativeCoordinates,
                   saved, dragging, resizing, selection, button, downSnap>>

\* The user selects a row of the tree (selectmode browse); the main window stays
\* usable while a RoiWindow is open.
treeSelect(v) ==
    /\ v \in treeRows
    /\ treeSelection # v
    /\ treeSelection' = v
    /\ UNCHANGED <<events, batchVars, openedFor, treeRows>>
    /\ lastEvent' = Event("treeSelect", <<>>)
    /\ UNCHANGED <<objs, lists, roi_dict, working_video_path, sessionVars, downSnap>>

\* VideoCropperGUI.drawRoi: opens a RoiWindow on a deep copy of the video's list
\* (RoiWindow.__init__).
drawRoi ==
    /\ ~roiWindow
    /\ LET wvp == IF treeSelection # "" THEN treeSelection ELSE working_video_path IN
       /\ wvp # ""
       /\ wvp \in DOMAIN roi_dict
       /\ working_video_path' = wvp
       /\ openedFor' = wvp
       /\ LET dc == DeepCopyList(objs, lists, HostValue(wvp))
          IN Commit(dc.objs, dc.lists, roi_dict, dc.list)
    /\ roiWindow' = TRUE
    /\ newRoi' = RoiNew
    /\ relativeCoordinates' = RelList(<<>>)
    /\ saved' = TRUE
    /\ dragging' = None
    /\ resizing' = None
    /\ selection' = <<>>
    /\ button' = "up"
    /\ downSnap' = NoSnap
    /\ UNCHANGED <<events, batchVars, treeRows>>
    /\ lastEvent' = Event("drawRoi", <<>>)
    /\ UNCHANGED treeSelection


\* --------------------------------------------------- RoiWindow: hit zones
\* The if/elif chain of leftMouseDown for one Roi and pointer (x, y):
\* four corner zones, four edge zones, the body, or no hit.
HitZone(roi, x, y) ==
    LET x1 == roi.coordinates[1][1]
        y1 == roi.coordinates[1][2]
        x2 == roi.coordinates[2][1]
        y2 == roi.coordinates[2][2]
    IN IF x1 - radius * 2 <= x /\ x <= x1 + radius * 2 /\ y1 - radius * 2 <= y /\ y <= y1 + radius * 2
         THEN "top-left"
       ELSE IF x2 - radius * 2 <= x /\ x <= x2 + radius * 2 /\ y1 - radius * 2 <= y /\ y <= y1 + radius * 2
         THEN "top-right"
       ELSE IF x1 - radius * 2 <= x /\ x <= x1 + radius * 2 /\ y2 - radius * 2 <= y /\ y <= y2 + radius * 2
         THEN "bottom-left"
       ELSE IF x2 - radius * 2 <= x /\ x <= x2 + radius * 2 /\ y2 - radius * 2 <= y /\ y <= y2 + radius * 2
         THEN "bottom-right"
       ELSE IF x1 - radius <= x /\ x <= x2 + radius /\ y1 - radius <= y /\ y <= y1 + radius
         THEN "top"
       ELSE IF x1 - radius <= x /\ x <= x2 + radius /\ y2 - radius <= y /\ y <= y2 + radius
         THEN "bottom"
       ELSE IF x1 - radius <= x /\ x <= x1 + radius /\ y1 - radius <= y /\ y <= y2 + radius
         THEN "left"
       ELSE IF x2 - radius <= x /\ x <= x2 + radius /\ y1 - radius <= y /\ y <= y2 + radius
         THEN "right"
       ELSE IF x1 <= x /\ x <= x2 /\ y1 <= y /\ y <= y2
         THEN "body"
       ELSE "none"

Handles == {"top-left", "top-right", "bottom-left", "bottom-right", "top", "bottom", "left", "right"}

\* The (left, top, right, bottom) mask stored in self.resizing for a handle.
HandleMask(zone) ==
    CASE zone = "top-left"     -> <<1, 1, 0, 0>>
      [] zone = "top-right"    -> <<0, 1, 1, 0>>
      [] zone = "bottom-left"  -> <<1, 0, 0, 1>>
      [] zone = "bottom-right" -> <<0, 0, 1, 1>>
      [] zone = "top"          -> <<0, 1, 0, 0>>
      [] zone = "bottom"       -> <<0, 0, 0, 1>>
      [] zone = "left"         -> <<1, 0, 0, 0>>
      [] zone = "right"        -> <<0, 0, 1, 0>>

\* The self.relativeCoordinates list stored for a handle.
HandleOffset(zone, roi, x, y) ==
    LET x1 == roi.coordinates[1][1]
        y1 == roi.coordinates[1][2]
        x2 == roi.coordinates[2][1]
        y2 == roi.coordinates[2][2]
    IN CASE zone = "top-left"     -> <<x1 - x, y1 - y>>
         [] zone = "top-right"    -> <<x2 - x, y1 - y>>
         [] zone = "bottom-left"  -> <<x1 - x, y2 - y>>
         [] zone = "bottom-right" -> <<x2 - x, y2 - y>>
         [] zone = "top"          -> <<x, y1 - y>>
         [] zone = "bottom"       -> <<x, y2 - y>>
         [] zone = "left"         -> <<x1 - x, y>>
         [] zone = "right"        -> <<x2 - x, y>>

\* The for loop of leftMouseDown from index idx on: every Roi is tested, there is no
\* break, so a later Roi overwrites what an earlier one assigned.  acc holds
\* resizing, relativeCoordinates and dragging.
RECURSIVE hitLoop(_, _, _, _, _)
hitLoop(rois, idx, x, y, acc) ==
    IF idx >= Len(rois) THEN acc
    ELSE LET roi == rois[idx + 1]
             zone == HitZone(roi, x, y)
             acc2 == IF zone \in Handles
                       THEN [acc EXCEPT !.resizing = <<idx, HandleMask(zone)>>,
                                        !.relativeCoordinates = RelList(HandleOffset(zone, roi, x, y))]
                     ELSE IF zone = "body"
                       THEN [acc EXCEPT !.dragging = <<idx>>]
                     ELSE acc
         IN hitLoop(rois, idx + 1, x, y, acc2)

\* The loop "for idx in self.selection" that fills the offset dict of a drag; it
\* stops at the first index past the end of the list (IndexError ends the handler).
RECURSIVE dragOffsets(_, _, _, _, _, _)
dragOffsets(rois, sel, k, x, y, d) ==
    IF k > Len(sel) \/ sel[k] >= Len(rois) THEN d
    ELSE LET c == rois[sel[k] + 1].coordinates[1]
             d2 == [i \in (DOMAIN d) \cup {sel[k]} |->
                      IF i = sel[k] THEN <<c[1] - x, c[2] - y>> ELSE d[i]]
         IN dragOffsets(rois, sel, k + 1, x, y, d2)

\* A resetSelection that leaves the selection as it is.
resetSelection_kept == selection

\* RoiWindow.resetSelection
resetSelection == <<>>

\* RoiWindow.mouseEvent, ButtonPress of button 1 without shift: saved = False, then
\* RoiWindow.leftMouseDown(x, y).
leftMouseDown(x, y) ==
    /\ roiWindow
    /\ Tick
    /\ button = "up"
    /\ button' = "down"
    /\ saved' = FALSE
    /\ LET acc0 == [resizing |-> resizing, relativeCoordinates |-> relativeCoordinates,
                    dragging |-> dragging]
           acc == hitLoop(Working, 0, x, y, acc0)
           sel2 == IF acc.resizing # None THEN <<acc.resizing[1]>>
                   ELSE IF acc.dragging # None
                     THEN (IF InSeq(acc.dragging[1], selection) THEN selection
                           ELSE <<acc.dragging[1]>>)
                   ELSE resetSelection
       IN
       /\ resizing' = acc.resizing
       /\ dragging' = acc.dragging
       \* the else of the for loop runs whenever the loop ends without break: always
       /\ newRoi' = setCoordinates(newRoi, 0, x, y, FALSE)
       /\ selection' = sel2
       /\ relativeCoordinates' =
            IF acc.resizing = None /\ acc.dragging # None
              THEN RelDict(dragOffsets(Working, sel2, 1, x, y, <<>>))
            ELSE acc.relativeCoordinates
       /\ downSnap' = [x |-> x, y |-> y, rois |-> Working, selection |-> sel2,
                       before |-> selection, idle |-> (dragging = None /\ resizing = None),
                       at |-> events + 1, moves |-> 0, mx |-> x, my |-> y]
    /\ lastEvent' = Event("leftMouseDown", <<>>)
    /\ UNCHANGED <<objs, lists, hostVars, roiWindow, roiCoordinates>>


\* Coordinates stay inside the pointer grid widened by Margin (bound of the model).
WindowX == UNION {gx - Margin .. gx + Margin : gx \in Xs}
WindowY == UNION {gy - Margin .. gy + Margin : gy \in Ys}
InWindow(o) ==
    \A id \in DOMAIN o : \A i \in 1..2 :
        /\ o[id].coordinates[i][1] \in WindowX
        /\ o[id].coordinates[i][2] \in WindowY

\* RoiWindow.mouseEvent, ButtonRelease of button 1 without shift: saved = False, then
\* RoiWindow.leftMouseUp(x, y).
leftMouseUp(x, y) ==
    /\ roiWindow
    /\ Tick
    /\ button = "down"
    /\ button' = "up"
    /\ saved' = FALSE
    /\ IF resizing # None THEN
           /\ selection' = <<>>
           /\ resizing' = None
           /\ UNCHANGED <<objs, lists, roi_dict, roiCoordinates, dragging, newRoi>>
       ELSE IF dragging # None THEN
           /\ dragging' = None
           /\ UNCHANGED <<objs, lists, roi_dict, roiCoordinates, resizing, newRoi, selection>>
       ELSE
           /\ Len(lists[roiCoordinates]) < MaxRois
           /\ LET r == setCoordinates(newRoi, 1, x, y, FALSE)
                  id == FreshIds(DOMAIN objs, 1)[1]
                  o2 == [i \in (DOMAIN objs) \cup {id} |-> IF i = id THEN r ELSE objs[i]]
                  l2 == [lists EXCEPT ![roiCoordinates] = Append(@, id)]
              IN /\ Commit(o2, l2, roi_dict, roiCoordinates)
                 /\ newRoi' = reset(r)
           /\ selection' = <<>>
           /\ UNCHANGED <<dragging, resizing>>
    /\ downSnap' = NoSnap
    /\ lastEvent' = Event("leftMouseUp", <<>>)
    /\ UNCHANGED <<working_video_path, treeSelection, roiWindow, relativeCoordinates>>

\* RoiWindow.mouseEvent, ButtonRelease of button 1 with shift held: no handler runs.
shiftLeftMouseUp(x, y) ==
    /\ roiWindow
    /\ Tick
    /\ button = "down"
    /\ button' = "up"
    /\ downSnap' = NoSnap
    /\ lastEvent' = Event("shiftLeftMouseUp", <<>>)
    /\ UNCHANGED <<objs, lists, hostVars, roiWindow, roiCoordinates, newRoi,
                   relativeCoordinates, saved, dragging, resizing, selection>>

\* The loop "for idx in self.selection" of a drag move from position k on: each Roi
\* is moved with setRoi; an index past the list, a missing dict key or a
\* relativeCoordinates that is a list raises and ends the handler there.
RECURSIVE dragLoop(_, _, _, _, _, _, _)
dragLoop(o, ids, sel, k, x, y, rel) ==
    IF k > Len(sel) THEN o
    ELSE LET idx == sel[k] IN
         IF idx >= Len(ids) \/ rel.kind # "dict" THEN o
         ELSE IF idx \notin DOMAIN rel.dict THEN o
         ELSE LET roi == o[ids[idx + 1]]
                  ox == x + rel.dict[idx][1]
                  oy == y + rel.dict[idx][2]
                  moved == setRoi(roi, <<ox, oy>>, <<roi.width + ox, roi.height + oy>>)
              IN dragLoop([o EXCEPT ![ids[idx + 1]] = moved], ids, sel, k + 1, x, y, rel)

\* The four "if self.resizing[1][..] == 1" statements of a resize move, in the
\* order top, bottom, left, right; rel is the [dx, dy] list.
resizeRoi(roi, mask, x, y, rel) ==
    LET r1 == IF mask[2] = 1
                THEN setCoordinates(roi, 0, roi.coordinates[1][1], y + rel[2], TRUE) ELSE roi
        r2 == IF mask[4] = 1
                THEN setCoordinates(r1, 1, r1.coordinates[2][1], y + rel[2], TRUE) ELSE r1
        r3 == IF mask[1] = 1
                THEN setCoordinates(r2, 0, x + rel[1], r2.coordinates[1][2], TRUE) ELSE r2
        r4 == IF mask[3] = 1
                THEN setCoordinates(r3, 1, x + rel[1], r3.coordinates[2][2], TRUE) ELSE r3
    IN r4

\* RoiWindow.mouseEvent, Motion with state 264 (button 1 held, no shift):
\* RoiWindow.leftMouseMove(x, y).
leftMouseMove(x, y) ==
    /\ roiWindow
    /\ Tick
    /\ button = "down"
    /\ IF dragging # None THEN
           /\ objs' = dragLoop(objs, lists[roiCoordinates], selection, 1, x, y,
                               relativeCoordinates)
           /\ UNCHANGED newRoi
       ELSE IF resizing # None THEN
           /\ objs' = IF /\ resizing[1] < Len(lists[roiCoordinates])
                         /\ relativeCoordinates.kind = "list"
                         /\ Len(relativeCoordinates.list) = 2
                        THEN [objs EXCEPT ![lists[roiCoordinates][resizing[1] + 1]] =
                                 resizeRoi(@, resizing[2], x, y, relativeCoordinates.list)]
                      ELSE objs
           /\ UNCHANGED newRoi
       ELSE
           /\ newRoi' = setCoordinates([newRoi EXCEPT !.status = TRUE], 1, x, y, FALSE)
           /\ UNCHANGED objs
    /\ InWindow(objs')
    /\ downSnap' = IF downSnap = NoSnap THEN NoSnap
                    ELSE [downSnap EXCEPT !.moves = @ + 1, !.mx = x, !.my = y]
    /\ lastEvent' = Event("leftMouseMove", <<>>)
    /\ UNCHANGED <<lists, hostVars, roiWindow, roiCoordinates, relativeCoordinates, saved,
                   dragging, resizing, selection, button>>

\* A shift-click loop that toggles: an index already selected is removed.
RECURSIVE shiftLoop_toggle(_, _, _, _, _)
shiftLoop_toggle(rois, idx, x, y, sel) ==
    IF idx >= Len(rois) THEN sel
    ELSE LET c == rois[idx + 1].coordinates
             inside == c[1][1] <= x /\ x <= c[2][1] /\ c[1][2] <= y /\ y <= c[2][2]
         IN shiftLoop_toggle(rois, idx + 1, x, y,
                      IF inside
                        THEN (IF InSeq(idx, sel) THEN SelectSeq(sel, LAMBDA e : e # idx)
                              ELSE Append(sel, idx))
                      ELSE sel)

\* The loop of shiftLeftMouseDown from index idx on: every Roi whose rectangle
\* contains the pointer and is not selected yet is appended to the selection.
RECURSIVE shiftLoop(_, _, _, _, _)
shiftLoop(rois, idx, x, y, sel) ==
    IF idx >= Len(rois) THEN sel
    ELSE LET c == rois[idx + 1].coordinates
             inside == c[1][1] <= x /\ x <= c[2][1] /\ c[1][2] <= y /\ y <= c[2][2]
         IN shiftLoop(rois, idx + 1, x, y,
                      IF inside /\ ~InSeq(idx, sel) THEN Append(sel, idx) ELSE sel)

\* RoiWindow.mouseEvent, ButtonPress of button 1 with shift:
\* RoiWindow.shiftLeftMouseDown(x, y).
shiftLeftMouseDown(x, y) ==
    /\ roiWindow
    /\ Tick
    /\ button = "up"
    /\ button' = "down"
    /\ selection' = shiftLoop(Working, 0, x, y, selection)
    /\ lastEvent' = Event("shiftLeftMouseDown", selection)
    /\ UNCHANGED <<objs, lists, hostVars, roiWindow, roiCoordinates, newRoi,
                   relativeCoordinates, saved, dragging, resizing, downSnap>>


\* A deleteRoi that compares the 1-based position with the 0-based indices of key.
deleteRoiList_offByOne(key) ==
    LET ids == lists[roiCoordinates]
        keep == {i \in 1..Len(ids) : ~InSeq(i, key)}
        n == Cardinality(keep)
        survivors == [j \in 1..n |->
                        ids[CHOOSE i \in keep : Cardinality({m \in keep : m < i}) = j - 1]]
        lid == FreshIds(DOMAIN lists, 1)[1]
        l2 == [id \in (DOMAIN lists) \cup {lid} |-> IF id = lid THEN survivors ELSE lists[id]]
    IN /\ Commit(objs, l2, roi_dict, lid)
       /\ selection' = resetSelection

\* RoiWindow.deleteRoi(key) with a list key: the working list is rebound to a new
\* list of the survivors; then resetSelection.
deleteRoiList(key) ==
    LET ids == lists[roiCoordinates]
        keep == {i \in 1..Len(ids) : ~InSeq(i - 1, key)}
        n == Cardinality(keep)
        survivors == [j \in 1..n |->
                        ids[CHOOSE i \in keep : Cardinality({m \in keep : m < i}) = j - 1]]
        lid == FreshIds(DOMAIN lists, 1)[1]
        l2 == [id \in (DOMAIN lists) \cup {lid} |-> IF id = lid THEN survivors ELSE lists[id]]
    IN /\ Commit(objs, l2, roi_dict, lid)
       /\ selection' = resetSelection

\* RoiWindow.deleteRoi(key) with an int key: pop in place, then resetSelection; an
\* index past the end raises before the selection is reset.
deleteRoiInt(key) ==
    LET ids == lists[roiCoordinates] IN
    IF key >= Len(ids) THEN UNCHANGED <<objs, lists, roi_dict, roiCoordinates, selection>>
    ELSE LET popped == [j \in 1..(Len(ids) - 1) |-> IF j <= key THEN ids[j] ELSE ids[j + 1]]
         IN /\ Commit(objs, [lists EXCEPT ![roiCoordinates] = popped], roi_dict, roiCoordinates)
            /\ selection' = resetSelection

\* RoiWindow.delete (Delete or BackSpace key): deleteRoi(self.selection).
delete ==
    /\ roiWindow
    /\ Tick
    /\ deleteRoiList(selection)
    /\ lastEvent' = Event("delete", [key |-> selection, n |-> Len(lists[roiCoordinates])])
    /\ UNCHANGED <<working_video_path, treeSelection, roiWindow, newRoi, relativeCoordinates,
                   saved, dragging, resizing, button, downSnap>>

\* Menu "Delete all ROIs": deleteRoi(list(range(0, len(self.roiCoordinates)))).
deleteAll ==
    /\ roiWindow
    /\ Tick
    /\ deleteRoiList([i \in 1..Len(lists[roiCoordinates]) |-> i - 1])
    /\ lastEvent' = Event("deleteAll", <<>>)
    /\ UNCHANGED <<working_video_path, treeSelection, roiWindow, newRoi, relativeCoordinates,
                   saved, dragging, resizing, button, downSnap>>

\* RoiWindow.selectAll (Control-a).
selectAll ==
    /\ roiWindow
    /\ Tick
    /\ selection' = [i \in 1..Len(lists[roiCoordinates]) |-> i - 1]
    /\ lastEvent' = Event("selectAll", <<>>)
    /\ UNCHANGED <<objs, lists, hostVars, roiWindow, roiCoordinates, newRoi,
                   relativeCoordinates, saved, dragging, resizing, button, downSnap>>

\* RoiWindow.escape (Escape key): resetSelection.
escape ==
    /\ roiWindow
    /\ Tick
    /\ selection' = resetSelection
    /\ lastEvent' = Event("escape", <<>>)
    /\ UNCHANGED <<objs, lists, hostVars, roiWindow, roiCoordinates, newRoi,
                   relativeCoordinates, saved, dragging, resizing, button, downSnap>>

\* The indices whose rectangle contains the pointer (test of rightMouseDown).
RightHits(rois, x, y) ==
    {idx \in 0..(Len(rois) - 1) :
        LET c == rois[idx + 1].coordinates
        IN c[1][1] <= x /\ x <= c[2][1] /\ c[1][2] <= y /\ y <= c[2][2]}

MaxOf(S) == CHOOSE m \in S : \A n \in S : n <= m

\* The values idx can have when a command of the popup menu runs: the lambda reads
\* the loop variable of rightMouseDown, which is the hit index while tk_popup is
\* still posting that menu and the last index of the list once the loop has ended.
PopupKeys(rois, x, y) == RightHits(rois, x, y) \cup {Len(rois) - 1}

\* RoiWindow.rightMouseDown(x, y), the menu dismissed without a command: every hit
\* Roi sets selection = [idx], the last one stays.
rightMouseDown(x, y) ==
    /\ roiWindow
    /\ Tick
    /\ RightHits(Working, x, y) # {}
    /\ selection' = <<MaxOf(RightHits(Working, x, y))>>
    /\ lastEvent' = Event("rightMouseDown", <<>>)
    /\ UNCHANGED <<objs, lists, hostVars, roiWindow, roiCoordinates, newRoi,
                   relativeCoordinates, saved, dragging, resizing, button, downSnap>>

\* RoiWindow.rightMouseDown(x, y) followed by the popup command "Delete ROI":
\* deleteRoi(idx) with an int.
popupDelete(x, y, key) ==
    /\ roiWindow
    /\ Tick
    /\ RightHits(Working, x, y) # {}
    /\ key \in PopupKeys(Working, x, y)
    /\ deleteRoiInt(key)
    /\ lastEvent' = Event("popupDelete", <<>>)
    /\ UNCHANGED <<working_video_path, treeSelection, roiWindow, newRoi, relativeCoordinates,
                   saved, dragging, resizing, button, downSnap>>

\* RoiWindow.rightMouseDown(x, y), popup command "Display ROI dimensions"
\* (RoiWindow.editRoi) and its close() with changed entries, confirmed: two
\* setCoordinates with the default sort=True.
popupEdit(x, y, key, a, b) ==
    /\ roiWindow
    /\ Tick
    /\ RightHits(Working, x, y) # {}
    /\ key \in PopupKeys(Working, x, y)
    /\ key < Len(lists[roiCoordinates])
    /\ LET id == lists[roiCoordinates][key + 1]
           roi == objs[id]
       IN /\ <<a, b>> # roi.coordinates
          /\ objs' = [objs EXCEPT ![id] =
                        setCoordinates(setCoordinates(roi, 0, a[1], a[2], TRUE),
                                       1, b[1], b[2], TRUE)]
    /\ selection' = <<MaxOf(RightHits(Working, x, y))>>
    /\ lastEvent' = Event("popupEdit", <<>>)
    /\ UNCHANGED <<lists, hostVars, roiWindow, roiCoordinates, newRoi, relativeCoordinates,
                   saved, dragging, resizing, button, downSnap>>

\* RoiWindow.saveRois: saveCallback(self.roiCoordinates), i.e. saveNewRois of
\* drawRoi, which stores the list object it is given; then saved = True.
saveRois ==
    /\ roiWindow
    /\ Tick
    /\ LET rd2 == [w \in (DOMAIN roi_dict) \cup {working_video_path} |->
                     IF w = working_video_path THEN roiCoordinates ELSE roi_dict[w]]
       IN Commit(objs, lists, rd2, roiCoordinates)
    /\ saved' = TRUE
    /\ lastEvent' = Event("saveRois", <<>>)
    /\ UNCHANGED <<working_video_path, treeSelection, roiWindow, newRoi, relativeCoordinates,
                   dragging, resizing, selection, button, downSnap>>

\* RoiWindow.destroy: the window and its state are gone.
destroy ==
    /\ Commit(objs, lists, roi_dict, 0)
    /\ roiWindow' = FALSE
    /\ newRoi' = RoiNew
    /\ relativeCoordinates' = RelList(<<>>)
    /\ saved' = TRUE
    /\ dragging' = None
    /\ resizing' = None
    /\ selection' = <<>>
    /\ button' = "up"
    /\ downSnap' = NoSnap
    /\ UNCHANGED <<working_video_path, treeSelection>>

\* RoiWindow.close with saved = True: destroy without a prompt.
close ==
    /\ roiWindow
    /\ Tick
    /\ saved
    /\ destroy
    /\ lastEvent' = Event("close", <<>>)

\* RoiWindow.close with saved = False: the "ROIs not saved!" prompt, answered OK.
closeConfirmed ==
    /\ roiWindow
    /\ Tick
    /\ ~saved
    /\ destroy
    /\ lastEvent' = Event("closeConfirmed", <<>>)

\* RoiWindow.close with saved = False: the prompt, answered Cancel.
closeCancelled ==
    /\ roiWindow
    /\ Tick
    /\ ~saved
    /\ lastEvent.kind # "closeCancelled"
    /\ lastEvent' = Event("closeCancelled", <<>>)
    /\ UNCHANGED <<objs, lists, hostVars, sessionVars, downSnap>>

\* Lists of Roi a .pkl file written by exportRois can hold.
ImportFiles == { <<RoiOf(<<0, 0>>, <<50, 50>>)>>, <<RoiOf(<<50, 50>>, <<50, 0>>)>> }

\* RoiWindow.importRoisFile with a readable file; replace is the answer to "Do you
\* want to replace the existing ROIs?" (asked only when the list is not empty).
importRoisFile(file, replace) ==
    /\ roiWindow
    /\ Tick
    /\ LET ids == lists[roiCoordinates]
           dc == DeepCopyList(objs, lists, file)
       IN IF Len(ids) > 0 /\ ~replace
            THEN /\ Len(ids) + Len(file) <= MaxRois
                 /\ Commit(dc.objs,
                           [lists EXCEPT ![roiCoordinates] = @ \o dc.lists[dc.list]],
                           roi_dict, roiCoordinates)
            ELSE /\ (Len(ids) = 0 => replace)
                 /\ Commit(dc.objs, dc.lists, roi_dict, dc.list)
    /\ lastEvent' = Event("importRoisFile", <<>>)
    /\ UNCHANGED <<working_video_path, treeSelection, roiWindow, newRoi, relativeCoordinates,
                   saved, dragging, resizing, selection, button, downSnap>>

\* Corner values (X_1, Y_1), (X_2, Y_2) the user types into the dimensions dialog.
EditEntries == { << <<0, 0>>, <<50, 25>> >>, << <<50, 50>>, <<25, 0>> >> }

\* ------------------------------------------- host handlers: import and export
\* get_path_components(path)[1]: the extension of each path of the model.
Extension == [p \in {PathOrder[k] : k \in 1..Len(PathOrder)} |->
                 IF p = "c.avi" THEN ".avi" ELSE ".mp4"]

\* validate_video_path(path)
validate_video_path(path) == Extension[path] \in {".mp4", ".MP4"}

\* Settings files import_roi_dict can be pointed at: pickled dicts, as sequences of
\* (video path, list of Roi) in the order of the dict.
SettingsFiles ==
    { << <<"c.avi", <<RoiOf(<<0, 0>>, <<50, 50>>)>> >> >>,
      << <<"b.mp4", <<RoiOf(<<0, 0>>, <<50, 50>>)>> >>, <<"c.avi", <<>> >> >>,
      << <<"b.mp4", <<RoiOf(<<0, 0>>, <<25, 25>>), RoiOf(<<0, 0>>, <<50, 50>>)>> >> >>,
      <<>> }

\* pickle.load of a settings file: new list and Roi objects for the entries from k on
\* (o, l extended), and the dict that refers to them.
RECURSIVE LoadDict(_, _, _, _)
LoadDict(o, l, file, k) ==
    IF k > Len(file) THEN [objs |-> o, lists |-> l, dict |-> <<>>]
    ELSE LET dc == DeepCopyList(o, l, file[k][2])
             rest == LoadDict(dc.objs, dc.lists, file, k + 1)
         IN [objs |-> rest.objs, lists |-> rest.lists,
             dict |-> [p \in (DOMAIN rest.dict) \cup {file[k][1]} |->
                          IF p = file[k][1] THEN dc.list ELSE rest.dict[p]]]

\* self.roi_dict = pickle.load(file): whether import_roi_dict assigns the loaded dict
\* (it does whenever the file can be unpickled, before any path is looked at).
importAssign(file, readable) == readable

\* VideoCropperGUI.import_roi_dict with a file chosen in the dialog (readable: whether
\* pickle.load succeeds).  The loop stops at the first entry: an invalid path shows
\* "Video does not exist" and returns, a valid one raises on self.listVideos (no such
\* attribute), which the except clause reports as "Error Importing settings".
import_roi_dict(file, readable) ==
    /\ LET ld == LoadDict(objs, lists, file, 1)
           error == IF ~readable THEN "Error Importing settings"
                    ELSE IF file = <<>> THEN ""
                    ELSE IF ~validate_video_path(file[1][1]) THEN "Video does not exist"
                    ELSE "Error Importing settings"
       IN /\ IF importAssign(file, readable)
             THEN Commit(ld.objs, ld.lists, ld.dict, roiCoordinates)
             ELSE UNCHANGED <<objs, lists, roi_dict, roiCoordinates>>
          /\ lastEvent' = Event("import_roi_dict", [file |-> file, error |-> error])
    /\ UNCHANGED <<working_video_path, treeSelection, treeRows, roiWindow, newRoi,
                   relativeCoordinates, saved, dragging, resizing, selection, button,
                   downSnap, events, openedFor, batchVars>>

\* VideoCropperGUI.export_roi: the selected row becomes the working video; the file
\* written does not change the state.
export_roi ==
    /\ working_video_path' = IF treeSelection # "" THEN treeSelection ELSE working_video_path
    /\ lastEvent' = Event("export_roi",
                          [error |-> IF working_video_path' = "" THEN "No Video selected"
                                     ELSE ""])
    /\ UNCHANGED <<objs, lists, roi_dict, treeSelection, treeRows, sessionVars, downSnap,
                   events, openedFor, batchVars>>

\* VideoCropperGUI.import_roi with a file chosen in the dialog: the selected row
\* becomes the working video and its entry of roi_dict is the unpickled list.
import_roi(file, readable) ==
    /\ LET wvp == IF treeSelection # "" THEN treeSelection ELSE working_video_path
           dc == DeepCopyList(objs, lists, file)
           rd2 == [w \in (DOMAIN roi_dict) \cup {wvp} |->
                      IF w = wvp THEN dc.list ELSE roi_dict[w]]
       IN /\ working_video_path' = wvp
          /\ IF wvp # "" /\ readable
             THEN Commit(dc.objs, dc.lists, rd2, roiCoordinates)
             ELSE UNCHANGED <<objs, lists, roi_dict, roiCoordinates>>
          /\ lastEvent' = Event("import_roi",
                                [error |-> IF wvp = "" THEN "No Video selected"
                                           ELSE IF ~readable THEN "Error importing ROIs"
                                           ELSE ""])
    /\ UNCHANGED <<treeSelection, treeRows, roiWindow, newRoi, relativeCoordinates, saved,
                   dragging, resizing, selection, button, downSnap, events, openedFor,
                   batchVars>>

\* ------------------------------------------------------------ specification
\* The host opening a session, and the pointer and keyboard events of RoiWindow.
NextPointer ==
    \/ \E v \in Videos : select_video(v)
    \/ \E v \in Videos : treeSelect(v)
    \/ drawRoi
    \/ \E p \in Points : leftMouseDown(p[1], p[2])
    \/ \E p \in Points : leftMouseMove(p[1], p[2])
    \/ \E p \in Points : leftMouseUp(p[1], p[2])
    \/ \E p \in Points : shiftLeftMouseDown(p[1], p[2])
    \/ \E p \in Points : shiftLeftMouseUp(p[1], p[2])
    \/ selectAll
    \/ delete
    \/ escape

SpecPointer == Init /\ [][NextPointer]_vars

\* Every handler of the model.
Next ==
    \/ \E v \in Videos : select_video(v)
    \/ \E v \in Videos : treeSelect(v)
    \/ drawRoi
    \/ \E p \in Points : leftMouseDown(p[1], p[2])
    \/ \E p \in Points : leftMouseMove(p[1], p[2])
    \/ \E p \in Points : leftMouseUp(p[1], p[2])
    \/ \E p \in Points : shiftLeftMouseDown(p[1], p[2])
    \/ \E p \in Points : shiftLeftMouseUp(p[1], p[2])
    \/ \E p \in Points : rightMouseDown(p[1], p[2])
    \/ \E p \in Points : \E k \in 0..(MaxRois - 1) : popupDelete(p[1], p[2], k)
    \/ \E p \in Points : \E k \in 0..(MaxRois - 1) : \E e \in EditEntries :
          popupEdit(p[1], p[2], k, e[1], e[2])
    \/ selectAll
    \/ delete
    \/ deleteAll
    \/ escape
    \/ \E f \in ImportFiles : \E r \in BOOLEAN : importRoisFile(f, r)
    \/ saveRois
    \/ close
    \/ closeConfirmed
    \/ closeCancelled

Spec == Init /\ [][Next]_vars


\* ------------------------------------------------ host: batch crop pipeline
\* The videos of the host's list, in the order roi_dict holds them (a dict keeps
\* insertion order), and the name of each one's output subfolder
\* (os.path.splitext(os.path.basename(video_path))[0]).
VideoOrder == <<"a.mp4", "b.mp4", "d/a.mp4">>
BatchVideos == {VideoOrder[k] : k \in 1..Len(VideoOrder)}
\* os.path.splitext(os.path.basename(video_path))[0]
BaseName == [v \in BatchVideos |-> IF v = "b.mp4" THEN "b" ELSE "a"]
\* The videos added in the main window of the specifications with two videos.
HostVideos == {"a.mp4", "b.mp4"}
\* What filedialog.askdirectory returns: "" when the dialog is cancelled.
Folders == {"", "out"}

\* len(roi_list_per_video) of the video at position k of VideoOrder (0: not in roi_dict).
RoiCount(k) ==
    IF VideoOrder[k] \in DOMAIN roi_dict THEN Len(lists[roi_dict[VideoOrder[k]]]) ELSE 0

\* A total that counts one crop per video with ROIs instead of one per Roi.
RECURSIVE sumCrops_perVideo(_)
sumCrops_perVideo(k) ==
    IF k > Len(VideoOrder) THEN 0
    ELSE (IF RoiCount(k) > 0 THEN 1 ELSE 0) + sumCrops_perVideo(k + 1)

\* total_crops = sum(len(liste) for liste in self.roi_dict.values())
RECURSIVE sumCrops(_)
sumCrops(k) == IF k > Len(VideoOrder) THEN 0 ELSE RoiCount(k) + sumCrops(k + 1)

\* The next video at or after position k whose ROI list is not empty (videos with an
\* empty list are skipped by `continue`); 0 when the outer loop is exhausted.
RECURSIVE nextVideo(_)
nextVideo(k) ==
    IF k > Len(VideoOrder) THEN 0
    ELSE IF RoiCount(k) > 0 THEN k ELSE nextVideo(k + 1)

\* A makedirs failure that shows the error and goes on with the next Roi.
mkdirFailed_continue ==
    /\ UNCHANGED cropPc
    /\ errors' = Append(errors, "Error Creating Directory")
    /\ UNCHANGED <<progress_window, cropVideo, folders, submitted, failedJobs, progress,
                   rendered_video>>

\* What follows the except branch of os.makedirs: show_error_message and return.
\* The progress window is left as it is.
mkdirFailed ==
    /\ cropPc' = "fatal"
    /\ errors' = Append(errors, "Error Creating Directory")
    /\ UNCHANGED <<progress_window, cropVideo, folders, submitted, failedJobs, progress,
                   rendered_video>>

\* A loop control that leaves both loops when the job just run has failed.
cropAdvance_stopAtFailure ==
    /\ IF failedJobs' # failedJobs
       THEN /\ cropVideo' = 0
            /\ cropI' = cropI + 1
       ELSE IF cropI + 1 < RoiCount(cropVideo)
       THEN /\ cropI' = cropI + 1
            /\ UNCHANGED cropVideo
       ELSE /\ cropVideo' = nextVideo(cropVideo + 1)
            /\ cropI' = 0
    /\ UNCHANGED <<cropPc, progress_window>>

\* The loop control after one Roi of the inner loop: the next Roi of the video, or
\* the next video with ROIs (0 when the outer loop is exhausted).
cropAdvance ==
    /\ IF cropI + 1 < RoiCount(cropVideo)
       THEN /\ cropI' = cropI + 1
            /\ UNCHANGED cropVideo
       ELSE /\ cropVideo' = nextVideo(cropVideo + 1)
            /\ cropI' = 0
    /\ UNCHANGED <<cropPc, progress_window>>

\* An ffmpeg step that sets the progress after every job, failed ones included.
ffmpegRun_reportAlways(job, runOk) ==
    /\ submitted' = Append(submitted, job)
    /\ progress' = Append(progress, rendered_video + (IF runOk THEN 1 ELSE 0))
    /\ IF runOk
       THEN /\ rendered_video' = rendered_video + 1
            /\ UNCHANGED <<failedJobs, errors>>
       ELSE /\ failedJobs' = Append(failedJobs, job)
            /\ errors' = Append(errors, "An error occurred:")
            /\ UNCHANGED rendered_video

\* try: ffmpeg...run(); rendered_video += 1; status_var.set(...)
\* except: show_error_message("An error occurred:", ...) and the loop goes on.
ffmpegRun(job, runOk) ==
    /\ submitted' = Append(submitted, job)
    /\ IF runOk
       THEN /\ rendered_video' = rendered_video + 1
            /\ progress' = Append(progress, rendered_video + 1)
            /\ UNCHANGED <<failedJobs, errors>>
       ELSE /\ failedJobs' = Append(failedJobs, job)
            /\ errors' = Append(errors, "An error occurred:")
            /\ UNCHANGED <<rendered_video, progress>>

\* self.master.attributes("-disabled", ...): showProgressBar disables the main window
\* and creates the progress window; the end of crop_video re-enables the one and
\* destroys the other, nothing else touches either.
masterDisabled == progress_window

\* VideoCropperGUI.crop_video up to the first iteration: the three checks,
\* select_output_folder (which raises when the dialog is cancelled), showProgressBar,
\* total_crops.  folder is the dialog's answer.  cap is a local of the call: a new
\* call starts without a capture of its own.
crop_video(folder) ==
    /\ ~roiWindow
    /\ cropPc # "loop"
    /\ submitted' = <<>>
    /\ failedJobs' = <<>>
    /\ progress' = <<>>
    /\ openCaps' = {}
    /\ cropLog' = <<>>
    /\ filters' = <<>>
    /\ IF working_video_path = ""
       THEN /\ errors' = <<"Input Video Not Selected">>
            /\ cropPc' = "rejected"
            /\ UNCHANGED <<output_folder, progress_window, cropVideo, cropI, total_crops,
                           rendered_video>>
       ELSE IF Cardinality(DOMAIN roi_dict) < 1
       THEN /\ errors' = <<"No ROIs selected">>
            /\ cropPc' = "rejected"
            /\ UNCHANGED <<output_folder, progress_window, cropVideo, cropI, total_crops,
                           rendered_video>>
       ELSE IF folder = ""
       THEN /\ errors' = <<>>
            /\ cropPc' = "raised"
            /\ UNCHANGED <<output_folder, progress_window, cropVideo, cropI, total_crops,
                           rendered_video>>
       ELSE /\ errors' = <<>>
            /\ output_folder' = folder
            /\ total_crops' = sumCrops(1)
            /\ rendered_video' = 0
            /\ cropI' = 0
            /\ cropPc' = "loop"
            /\ progress_window' = TRUE
            /\ cropVideo' = nextVideo(1)
    /\ lastEvent' = Event("crop_video", <<>>)
    /\ UNCHANGED <<objs, lists, hostVars, sessionVars, downSnap, events, openedFor, folders>>

\* cap = cv2.VideoCapture(video_path)
capOpen(caps, v) == caps \cup {v}

\* A loop that goes on to the next video without releasing the capture.
capRelease_skipped(caps, v) == caps

\* cap.release()
capRelease(caps, v) == caps \ {v}

\* filter = 'crop={}:{}:{}:{}'.format(x2 - x1, y2 - y1, x1, y1): the four numbers of
\* the filter in the order they are formatted (the text of the user's extra filter,
\* appended when the filter box is ticked, is left out).
cropFilter(roi) ==
    LET x1 == roi.coordinates[1][1]
        y1 == roi.coordinates[1][2]
        x2 == roi.coordinates[2][1]
        y2 == roi.coordinates[2][2]
    IN <<x2 - x1, y2 - y1, x1, y1>>

\* output_path = os.path.join(self.output_folder, base, f"{base}_{i}_cropped.mp4"),
\* as the components that are joined.
output_path(folder, v, i) == <<folder, BaseName[v], <<BaseName[v], i, "cropped.mp4">> >>

\* One iteration of the inner loop of crop_video, for Roi number cropI + 1 of the
\* video at cropVideo: the subfolder is created when it does not exist (mkOk: whether
\* os.makedirs succeeds), then ffmpeg runs (runOk: whether it returns without raising).
\* The first iteration of a video follows the opening of its capture, the last one
\* is followed by cap.release().
cropJob(mkOk, runOk) ==
    /\ cropPc = "loop"
    /\ cropVideo # 0
    /\ LET v == VideoOrder[cropVideo]
           job == <<v, cropI + 1>>
           roi == objs[lists[roi_dict[v]][cropI + 1]]
           first == cropI = 0
           last == cropI + 1 >= RoiCount(cropVideo)
           opened == IF first THEN capOpen(openCaps, v) ELSE openCaps
           logOpened == IF first THEN Append(cropLog, <<"open", v, 0>>) ELSE cropLog
       IN IF BaseName[v] \notin folders /\ ~mkOk
          THEN /\ mkdirFailed
               /\ cropI' = cropI + 1
               /\ openCaps' = opened
               /\ cropLog' = logOpened
               /\ UNCHANGED filters
          ELSE /\ folders' = folders \cup {BaseName[v]}
               /\ filters' = Append(filters, cropFilter(roi))
               /\ ffmpegRun(job, runOk)
               /\ cropAdvance
               /\ openCaps' = IF last THEN capRelease(opened, v) ELSE opened
               /\ cropLog' = IF last
                             THEN Append(Append(logOpened, <<"job", v, cropI + 1>>),
                                         <<"release", v, 0>>)
                             ELSE Append(logOpened, <<"job", v, cropI + 1>>)
    /\ lastEvent' = Event("cropJob", <<>>)
    /\ UNCHANGED <<objs, lists, hostVars, sessionVars, downSnap, events, openedFor, output_folder,
                   total_crops>>

\* The end of crop_video after the loops: the progress window is destroyed.
cropEnd ==
    /\ cropPc = "loop"
    /\ cropVideo = 0
    /\ cropPc' = "done"
    /\ progress_window' = FALSE
    /\ lastEvent' = Event("cropEnd", <<>>)
    /\ UNCHANGED <<objs, lists, hostVars, sessionVars, downSnap, events, openedFor, output_folder,
                   cropVideo, cropI, total_crops, rendered_video, folders, submitted,
                   failedJobs, progress, errors, openCaps, cropLog, filters>>

\* ROI lists the host can hold when crop_video is called: for every subset of the
\* videos, lists of 0..MaxRois ROIs (filled by sessions or by import_roi).
RECURSIVE countsBefore(_, _)
countsBefore(counts, k) ==
    IF k = 0 THEN 0
    ELSE (IF VideoOrder[k] \in DOMAIN counts THEN counts[VideoOrder[k]] ELSE 0)
         + countsBefore(counts, k - 1)

\* The videos of S in the order of VideoOrder.
BatchOrder(S) == SelectSeq(VideoOrder, LAMBDA v : v \in S)

InitBatch ==
    \E S \in SUBSET BatchVideos : \E counts \in [S -> 0..MaxRois] :
    \E wvp \in {""} \cup S : \E fs \in SUBSET {BaseName[v] : v \in BatchVideos} :
        LET ord == BatchOrder(S)
            pos(v) == CHOOSE k \in 1..Len(VideoOrder) : VideoOrder[k] = v
        IN
        /\ objs = [n \in 1..countsBefore(counts, Len(VideoOrder)) |->
                      RoiOf(<<0, 0>>, <<50, 50>>)]
        /\ lists = [n \in 1..Len(ord) |->
                      [j \in 1..counts[ord[n]] |-> countsBefore(counts, pos(ord[n]) - 1) + j]]
        /\ roi_dict = [v \in S |-> IndexOf(v, ord)]
        /\ working_video_path = wvp
        /\ treeSelection = ""
        /\ treeRows = S
        /\ roiWindow = FALSE
        /\ roiCoordinates = 0
        /\ newRoi = RoiNew
        /\ relativeCoordinates = RelList(<<>>)
        /\ saved = TRUE
        /\ dragging = None
        /\ resizing = None
        /\ selection = <<>>
        /\ button = "up"
        /\ lastEvent = Event("init", <<>>)
        /\ downSnap = NoSnap
        /\ events = 0
        /\ openedFor = ""
        /\ output_folder = ""
        /\ progress_window = FALSE
        /\ cropPc = "idle"
        /\ cropVideo = 0
        /\ cropI = 0
        /\ total_crops = 0
        /\ rendered_video = 0
        /\ folders = fs
        /\ submitted = <<>>
        /\ failedJobs = <<>>
        /\ progress = <<>>
        /\ errors = <<>>
        /\ openCaps = {}
        /\ cropLog = <<>>
        /\ filters = <<>>

NextBatch ==
    \/ \E f \in Folders : crop_video(f)
    \/ \E mk \in BOOLEAN : \E ok \in BOOLEAN : cropJob(mk, ok)
    \/ cropEnd

SpecBatch == InitBatch /\ [][NextBatch]_vars


\* --------------------------------------- an editing session, then a batch run
\* The host while crop_video is not in its loops: videos are added, a session is
\* opened, ROIs are drawn, saved, the window is closed; then crop_video runs.
NextDrawCrop ==
    \/ \E v \in Videos : cropPc # "loop" /\ select_video(v)
    \/ \E v \in Videos : cropPc # "loop" /\ treeSelect(v)
    \/ cropPc # "loop" /\ drawRoi
    \/ \E p \in Points : leftMouseDown(p[1], p[2])
    \/ \E p \in Points : leftMouseMove(p[1], p[2])
    \/ \E p \in Points : leftMouseUp(p[1], p[2])
    \/ saveRois
    \/ close
    \/ closeConfirmed
    \/ \E f \in Folders : crop_video(f)
    \/ \E mk \in BOOLEAN : \E ok \in BOOLEAN : cropJob(mk, ok)
    \/ cropEnd

SpecDrawCrop == Init /\ [][NextDrawCrop]_vars


\* ------------------------------------------------ the host's import buttons
\* Videos are added and selected, ROI lists and whole settings files are imported.
NextImport ==
    \/ \E v \in HostVideos : select_video(v)
    \/ \E v \in HostVideos : treeSelect(v)
    \/ \E f \in ImportFiles : \E r \in BOOLEAN : import_roi(f, r)
    \/ \E f \in SettingsFiles : \E r \in BOOLEAN : import_roi_dict(f, r)

SpecImport == Init /\ [][NextImport]_vars

\* ------------------------------ the host's buttons beside an editing session
\* Two videos; the main window's buttons work while the RoiWindow is open.
NextHost ==
    \/ \E v \in HostVideos : select_video(v)
    \/ \E v \in HostVideos : treeSelect(v)
    \/ drawRoi
    \/ export_roi
    \/ \E p \in Points : leftMouseDown(p[1], p[2])
    \/ \E p \in Points : leftMouseUp(p[1], p[2])
    \/ saveRois
    \/ close
    \/ closeConfirmed

SpecHost == Init /\ [][NextHost]_vars


\* ------------------------------------------------- class Roi, method by method
\* Points handed to the methods of one Roi object (newRoi stands for the object).
RoiPoints == Xs \X Ys

\* roi.setRoi(a, b)
callSetRoi(a, b) ==
    /\ newRoi' = setRoi(newRoi, a, b)
    /\ lastEvent' = Event("setRoi", [a |-> a, b |-> b])
    /\ UNCHANGED <<objs, lists, hostVars, roiWindow, roiCoordinates, relativeCoordinates,
                   saved, dragging, resizing, selection, button, downSnap, events, openedFor,
                   batchVars>>

\* roi.setCoordinates(i, x, y, sort)
callSetCoordinates(i, x, y, sort) ==
    /\ newRoi' = setCoordinates(newRoi, i, x, y, sort)
    /\ lastEvent' = Event("setCoordinates", [i |-> i, x |-> x, y |-> y, sort |-> sort])
    /\ UNCHANGED <<objs, lists, hostVars, roiWindow, roiCoordinates, relativeCoordinates,
                   saved, dragging, resizing, selection, button, downSnap, events, openedFor,
                   batchVars>>

NextRoi ==
    \/ \E a \in RoiPoints : \E b \in RoiPoints : callSetRoi(a, b)
    \/ \E i \in 0..1 : \E p \in RoiPoints : \E sort \in BOOLEAN :
          callSetCoordinates(i, p[1], p[2], sort)

SpecRoi == Init /\ [][NextRoi]_vars

\* ------------------------------------------------------------------- claims
Abs(n) == IF n < 0 THEN 0 - n ELSE n

\* corners[0] <= corners[1] on both axes, width and height not negative.
Normalized(r) ==
    /\ r.coordinates[1][1] <= r.coordinates[2][1]
    /\ r.coordinates[1][2] <= r.coordinates[2][2]
    /\ r.width >= 0
    /\ r.height >= 0

\* The press recorded in downSnap is still held and only moves followed it.
PureGesture == downSnap # NoSnap /\ button = "down" /\ events = downSnap.at + downSnap.moves

\* C1: in every reachable state of an editing session every Rectangle of the working
\* collection is normalized (corners[0] <= corners[1] on both axes, width, height >= 0).
C1_WorkingNormalized ==
    roiWindow => \A i \in 1..Len(Working) : Normalized(Working[i])

\* C2: from an empty collection in Idle, down(a), move(b), up(b) leaves exactly one
\* Rectangle whose corners are the element-wise minimum and maximum of a and b and
\* whose width and height are |b.x - a.x| and |b.y - a.y|.
C2_DraftYieldsMinMax ==
    [][\A p \in Points :
         ( /\ leftMouseUp(p[1], p[2])
           /\ PureGesture
           /\ downSnap.rois = <<>>
           /\ downSnap.idle
           /\ downSnap.moves = 1
           /\ downSnap.mx = p[1] /\ downSnap.my = p[2] )
         => /\ Len(Working') = 1
            /\ Working'[1].coordinates =
                 << <<Min2(downSnap.x, p[1]), Min2(downSnap.y, p[2])>>,
                    <<Max2(downSnap.x, p[1]), Max2(downSnap.y, p[2])>> >>
            /\ Working'[1].width = Abs(p[1] - downSnap.x)
            /\ Working'[1].height = Abs(p[2] - downSnap.y)]_vars


\* r moved by (dx, dy), nothing else changed.
Translated(r, dx, dy) ==
    [r EXCEPT !.coordinates = << <<r.coordinates[1][1] + dx, r.coordinates[1][2] + dy>>,
                                 <<r.coordinates[2][1] + dx, r.coordinates[2][2] + dy>> >>]

\* C3: while Dragging a multi-selected set, after every move each selected Rectangle
\* has the width and height it had at the down event and both stored corners are
\* their values at the down plus the pointer displacement since the down.
C3_DragTranslatesSelection ==
    ( /\ roiWindow
      /\ PureGesture
      /\ downSnap.idle
      /\ downSnap.moves >= 1
      /\ dragging # None /\ resizing = None
      /\ Len(downSnap.selection) >= 2 )
    => \A k \in 1..Len(downSnap.selection) :
         LET idx == downSnap.selection[k] IN
         idx < Len(downSnap.rois) =>
            Working[idx + 1] =
               Translated(downSnap.rois[idx + 1], downSnap.mx - downSnap.x,
                          downSnap.my - downSnap.y)

\* C4: with two or more ROIs and an empty selection, a down inside the body of ROI k,
\* one move and an up translate ROI k by the pointer displacement and leave every
\* other ROI of the collection unchanged.
C4_DragMovesOnlyHitRoi ==
    [][\A p \in Points :
         ( /\ leftMouseUp(p[1], p[2])
           /\ PureGesture
           /\ downSnap.idle
           /\ downSnap.moves = 1
           /\ Len(downSnap.rois) >= 2
           /\ downSnap.before = <<>> )
         => \A k \in 1..Len(downSnap.rois) :
              HitZone(downSnap.rois[k], downSnap.x, downSnap.y) = "body"
              => /\ Len(Working') = Len(downSnap.rois)
                 /\ Working'[k] = Translated(downSnap.rois[k], downSnap.mx - downSnap.x,
                                             downSnap.my - downSnap.y)
                 /\ \A j \in 1..Len(downSnap.rois) : j # k => Working'[j] = downSnap.rois[j]
      ]_vars

\* On one axis: lo and hi are the stored coordinates now, lo0 and hi0 those at the
\* down, fl and fh the mask flags of the low and the high edge.  An unflagged axis is
\* unchanged; with one edge flagged the opposite edge is still an edge of the Roi.
AxisKept(lo, hi, lo0, hi0, fl, fh) ==
    /\ (fl = 0 /\ fh = 0) => (lo = lo0 /\ hi = hi0)
    /\ (fl = 1 /\ fh = 0) => hi0 \in {lo, hi}
    /\ (fl = 0 /\ fh = 1) => lo0 \in {lo, hi}

\* C5: during a Resizing gesture, over any sequence of moves, only the coordinates on
\* the axes flagged in the handle mask change: the edges opposite to the grabbed
\* handle keep the values they had at the down event.
C5_ResizeKeepsOppositeEdges ==
    ( /\ roiWindow
      /\ PureGesture
      /\ downSnap.idle
      /\ resizing # None /\ dragging = None
      /\ resizing[1] < Len(downSnap.rois)
      /\ Normalized(downSnap.rois[resizing[1] + 1]) )
    => LET c == Working[resizing[1] + 1].coordinates
           c0 == downSnap.rois[resizing[1] + 1].coordinates
           m == resizing[2]
       IN /\ AxisKept(c[1][1], c[2][1], c0[1][1], c0[2][1], m[1], m[3])
          /\ AxisKept(c[1][2], c[2][2], c0[1][2], c0[2][2], m[2], m[4])

\* The entries of rois whose 0-based index is not in key, in their order.
RECURSIVE Compact(_, _, _)
Compact(rois, key, i) ==
    IF i > Len(rois) THEN <<>>
    ELSE (IF InSeq(i - 1, key) THEN <<>> ELSE <<rois[i]>>) \o Compact(rois, key, i + 1)

\* C6: the delete key yields the original collection with the selected entries removed
\* and the survivors in their original relative order, and leaves the selection empty.
C6_DeleteRemovesSelection ==
    [][delete => (Working' = Compact(Working, selection, 1) /\ selection' = <<>>)]_vars

\* C6 witness: the first of two ROIs was deleted and the second one survives.
C6_Witness ==
    /\ roiWindow
    /\ lastEvent.kind = "delete"
    /\ lastEvent.arg.n = 2
    /\ lastEvent.arg.key = <<0>>
    /\ Len(Working) = 1

\* The host's per-video ROI map, as values.
HostView == [v \in DOMAIN roi_dict |-> HostValue(v)]

\* The RoiWindow handlers other than saveRois.
SessionEdits ==
    {"leftMouseDown", "leftMouseMove", "leftMouseUp", "shiftLeftMouseDown", "shiftLeftMouseUp",
     "rightMouseDown", "popupDelete", "popupEdit", "selectAll", "delete", "deleteAll",
     "escape", "importRoisFile", "close", "closeConfirmed", "closeCancelled"}

\* C7: the host's per-video ROI map changes only at an explicit save: no other event of
\* the session (pointer, delete, import, close), before or after a first save, alters
\* the host's stored collection of any video.
C7_HostChangesOnlyAtSave ==
    [][(roiWindow /\ lastEvent'.kind \in SessionEdits) => HostView' = HostView]_vars

\* C8: at most one of the three interaction states is active: a drag, a resize, or a
\* new-ROI draft in progress.
C8_AtMostOneInteraction ==
    roiWindow =>
       /\ ~(dragging # None /\ resizing # None)
       /\ ~(dragging # None /\ newRoi.status)
       /\ ~(resizing # None /\ newRoi.status)

\* C9 as stated: an escape while Dragging does not exit the drag state and leaves the
\* selection unchanged.
C9_EscapeKeepsSelection ==
    [][(escape /\ dragging # None) => (dragging' = dragging /\ selection' = selection)]_vars

\* C9 amended: an escape while Dragging does not exit the drag state (only an up, or
\* closing the window, does) and clears the selection at once.
C9_EscapeKeepsDragClearsSelection ==
    [][ /\ (escape /\ dragging # None) => (dragging' = dragging /\ selection' = <<>>)
        /\ (dragging # None /\ dragging' = None)
              => lastEvent'.kind \in {"leftMouseUp", "close", "closeConfirmed"} ]_vars

\* C9 witness: escape arrived during a drag that had a selection; the drag goes on.
C9_Witness ==
    /\ roiWindow
    /\ lastEvent.kind = "escape"
    /\ button = "down"
    /\ dragging # None /\ resizing = None
    /\ downSnap # NoSnap
    /\ Len(downSnap.selection) >= 1
    /\ selection = <<>>

\* The transitions that mutate the geometry of the working collection.
GeometryEdits == {"leftMouseMove", "leftMouseUp", "popupEdit", "popupDelete", "delete", "deleteAll"}

\* C10: every transition that mutates the working collection's geometry (drag move,
\* resize move, draft commit, dialog edit, delete) leaves saved = false, so a session
\* whose collection differs from the saved one cannot close without the prompt.
C10_GeometryEditMarksDirty ==
    [][(roiWindow /\ lastEvent'.kind \in GeometryEdits /\ Working' # Working)
          => saved' = FALSE]_vars

\* The reported values never decrease.
NonDecreasing(s) == \A k \in 1..(Len(s) - 1) : s[k] <= s[k + 1]

\* C11 as stated: in a batch run that is not fatally aborted, progress is reported
\* exactly once per job whether it succeeds or fails (reports = total jobs), the
\* reported completed count never decreases, and succeeded + failed = total jobs.
C11_ProgressOncePerJob ==
    cropPc = "done" =>
       /\ Len(progress) = total_crops
       /\ NonDecreasing(progress)
       /\ rendered_video + Len(failedJobs) = total_crops

\* C11 amended: in a batch run that is not fatally aborted, progress is reported
\* exactly once per job that succeeds (reports = succeeded; a failing job reports an
\* error and no progress), the k-th report carries completed = k, so the reported
\* count never decreases, and succeeded + failed = total jobs.
C11_ProgressOncePerSuccess ==
    /\ cropPc \in {"loop", "done"} =>
          /\ Len(progress) = rendered_video
          /\ \A k \in 1..Len(progress) : progress[k] = k
          /\ NonDecreasing(progress)
    /\ cropPc = "done" => rendered_video + Len(failedJobs) = total_crops

\* C11 witness: ROI counts {2, 1}, one job failed: 2 succeeded, 1 failed, 2 reports.
C11_Witness ==
    /\ cropPc = "done"
    /\ total_crops = 3
    /\ Len(submitted) = 3
    /\ Len(failedJobs) = 1
    /\ rendered_video = 2
    /\ progress = <<1, 2>>

\* Every (video, i) job of the host's ROI map, in iteration order: the videos in
\* the order of the map, the ROIs of each video numbered from 1 in list order.
RECURSIVE AllJobsFrom(_)
AllJobsFrom(k) ==
    IF k > Len(VideoOrder) THEN <<>>
    ELSE [j \in 1..RoiCount(k) |-> <<VideoOrder[k], j>>] \o AllJobsFrom(k + 1)
AllJobs == AllJobsFrom(1)

\* C12: a Transcoder failure on one crop job does not abort the batch: the run goes
\* on after the failing job, the jobs submitted are always the first jobs in
\* iteration order, and a run that ends without a fatal error has submitted every job.
C12_FailureDoesNotAbort ==
    [][ /\ \A mk \in BOOLEAN :
             (cropJob(mk, FALSE) /\ Len(submitted') = Len(submitted) + 1)
             => /\ cropPc' = "loop"
                /\ failedJobs' = Append(failedJobs, AllJobs[Len(submitted) + 1])
                /\ (cropVideo' = 0) <=> (Len(submitted') = Len(AllJobs))
        /\ (cropPc' \in {"loop", "done"})
             => /\ Len(submitted') <= Len(AllJobs)
                /\ submitted' = SubSeq(AllJobs, 1, Len(submitted'))
        /\ (cropPc' = "done") => submitted' = AllJobs ]_vars

\* C12 witness: the first of three jobs over two videos failed and the two jobs after
\* it, one of them of the next video, were submitted.
C12_Witness ==
    /\ cropPc = "done"
    /\ Len(submitted) = 3
    /\ Len(failedJobs) >= 1
    /\ failedJobs[1] = submitted[1]
    /\ submitted[3][1] # submitted[1][1]

\* C13: if creating the per-video subfolder fails, the whole run is aborted: no job is
\* submitted for that ROI, for later ROIs of the video or for any later video (the
\* jobs submitted are exactly those before the failing one), and nothing is submitted
\* afterwards.
C13_MkdirFailureAborts ==
    [][ /\ \A ok \in BOOLEAN :
             (cropJob(FALSE, ok) /\ BaseName[VideoOrder[cropVideo]] \notin folders)
             => /\ cropPc' = "fatal"
                /\ submitted' = submitted
        /\ (cropPc' = "fatal")
             => /\ Len(submitted') < Len(AllJobs)
                /\ submitted' = SubSeq(AllJobs, 1, Len(submitted'))
                /\ AllJobs[Len(submitted') + 1] = <<VideoOrder[cropVideo'], cropI'>>
        /\ (cropPc = "fatal" /\ lastEvent'.kind # "crop_video")
             => submitted' = submitted ]_vars

\* C13 witness: the subfolder of the first video could not be created; that video has
\* two ROIs, a later video has ROIs too, and no job was submitted.
C13_Witness ==
    /\ cropPc = "fatal"
    /\ cropVideo = 1
    /\ cropI = 1
    /\ RoiCount(1) = 2
    /\ RoiCount(2) >= 1
    /\ submitted = <<>>

\* No ROI is defined for any video.
NoRoiAnywhere == \A v \in DOMAIN roi_dict : Len(lists[roi_dict[v]]) = 0

\* C14: a batch invoked with no video selected, with no ROI defined for any video or
\* with no output folder chosen is rejected with an error before any job starts, and
\* no partial work is done: no job submitted, no folder created, no progress window.
C14_PreconditionsRejected ==
    [][\A f \in Folders :
         (crop_video(f) /\ (working_video_path = "" \/ NoRoiAnywhere \/ f = ""))
         => /\ cropPc' \in {"rejected", "raised"}
            /\ ~progress_window'
            /\ submitted' = <<>>
            /\ folders' = folders ]_vars

\* Some entry of an import file has a negative width or height.
HasNegative(file) == \E n \in 1..Len(file) : file[n].width < 0 \/ file[n].height < 0

\* C15: importing a ROI list into a session (replace or append) fails if an imported
\* entry has a negative width or height, and the working collection is unchanged.
C15_ImportRejectsNegative ==
    [][\A f \in ImportFiles : \A r \in BOOLEAN :
         (importRoisFile(f, r) /\ HasNegative(f)) => Working' = Working]_vars

\* r is the element-wise minimum and maximum of the points p and q, with the width and
\* the height their differences, not negative.
IsMinMaxOf(r, p, q) ==
    LET c == r.coordinates IN
    /\ c[1][1] <= c[2][1] /\ {c[1][1], c[2][1]} = {p[1], q[1]}
    /\ c[1][2] <= c[2][2] /\ {c[1][2], c[2][2]} = {p[2], q[2]}
    /\ r.width = c[2][1] - c[1][1] /\ r.width >= 0
    /\ r.height = c[2][2] - c[1][2] /\ r.height >= 0

\* C16: after setRoi(a, b), or setCoordinates with sort = True, corners[0] is the
\* element-wise minimum and corners[1] the element-wise maximum of the two stored
\* points, and width and height are their differences, both >= 0.
C16_SetNormalizes ==
    [][ /\ \A a \in RoiPoints : \A b \in RoiPoints :
             callSetRoi(a, b) => IsMinMaxOf(newRoi', a, b)
        /\ \A i \in 0..1 : \A p \in RoiPoints :
             callSetCoordinates(i, p[1], p[2], TRUE)
             => IsMinMaxOf(newRoi', p, newRoi.coordinates[2 - i]) ]_vars

\* C16 witness: setRoi was given a = top-right and b = bottom-left, so neither stored
\* corner is one of the two points.
C16_Witness ==
    /\ lastEvent.kind = "setRoi"
    /\ lastEvent.arg.a = <<50, 0>>
    /\ lastEvent.arg.b = <<0, 25>>
    /\ newRoi.coordinates = << <<0, 0>>, <<50, 25>> >>
    /\ newRoi.width = 50
    /\ newRoi.height = 25

\* The first Roi of the collection, in order, with a hit zone under (x, y); -1: none.
RECURSIVE FirstHit(_, _, _, _)
FirstHit(rois, idx, x, y) ==
    IF idx >= Len(rois) THEN 0 - 1
    ELSE IF HitZone(rois[idx + 1], x, y) # "none" THEN idx
    ELSE FirstHit(rois, idx + 1, x, y)

\* C17: on an unmodified down the ROIs are checked in collection order and the first
\* match wins: the gesture targets the earliest Roi with a hit zone under the pointer,
\* and that Roi's own zone (corner, edge, body) decides between resize and drag.
C17_FirstMatchWins ==
    [][\A p \in Points :
         ( /\ leftMouseDown(p[1], p[2])
           /\ dragging = None /\ resizing = None
           /\ FirstHit(Working, 0, p[1], p[2]) >= 0 )
         => LET k == FirstHit(Working, 0, p[1], p[2])
                zone == HitZone(Working[k + 1], p[1], p[2])
            IN IF zone = "body"
               THEN dragging' = <<k>> /\ resizing' = None
               ELSE resizing' = <<k, HandleMask(zone)>> /\ dragging' = None ]_vars

\* C18: after every unmodified up the machine is in Idle (no drag, no resize, no
\* draft); an up that ends Resizing leaves the selection empty, and an up that ends
\* Dragging leaves the selection as it was before the up.
C18_UpReturnsToIdle ==
    [][\A p \in Points :
         leftMouseUp(p[1], p[2])
         => /\ dragging' = None /\ resizing' = None /\ ~newRoi'.status
            /\ (resizing # None) => selection' = <<>>
            /\ (dragging # None /\ resizing = None) => selection' = selection ]_vars

\* (x, y) is inside the rectangle of Roi number idx of rois (the test of a shift-click).
InsideRect(rois, idx, x, y) ==
    /\ idx >= 0 /\ idx < Len(rois)
    /\ rois[idx + 1].coordinates[1][1] <= x /\ x <= rois[idx + 1].coordinates[2][1]
    /\ rois[idx + 1].coordinates[1][2] <= y /\ y <= rois[idx + 1].coordinates[2][2]

\* C19: a down with shift is purely additive on the selection: it removes no index,
\* adds each body-hit index that was not selected exactly once, changes nothing when
\* repeated, leaves dragging, resizing and the draft unchanged, and leaves the ROI
\* collection unchanged.
C19_ShiftDownAdditive ==
    [][\A p \in Points :
         shiftLeftMouseDown(p[1], p[2])
         => /\ Len(selection') >= Len(selection)
            /\ SubSeq(selection', 1, Len(selection)) = selection
            /\ \A k \in (Len(selection) + 1)..Len(selection') :
                 /\ InsideRect(Working, selection'[k], p[1], p[2])
                 /\ \A m \in 1..Len(selection') : selection'[m] = selection'[k] => m = k
            /\ \A idx \in 0..(Len(Working) - 1) :
                 InsideRect(Working, idx, p[1], p[2]) => InSeq(idx, selection')
            /\ shiftLoop(Working', 0, p[1], p[2], selection') = selection'
            /\ dragging' = dragging /\ resizing' = resizing /\ newRoi' = newRoi
            /\ Working' = Working ]_vars

\* C19 witness: ROI 0 was selected and a shift-click inside ROI 0 and ROI 1 added
\* ROI 1, once, and kept ROI 0.
C19_Witness ==
    /\ roiWindow
    /\ lastEvent.kind = "shiftLeftMouseDown"
    /\ lastEvent.arg = <<0>>
    /\ selection = <<0, 1>>
    /\ Len(Working) = 2

\* C20: on an unmodified down that hits a ROI body the selection is kept if the hit
\* index is in it and becomes exactly {index} otherwise, and for every index in the
\* resulting selection the offset top-left corner minus pointer is recorded; on a
\* down with no hit the selection is cleared and the draft's first corner is the pointer.
C20_DownSelectsAndRecordsOffsets ==
    [][\A p \in Points :
         leftMouseDown(p[1], p[2])
         => LET k == FirstHit(Working, 0, p[1], p[2]) IN
            /\ (k >= 0 /\ HitZone(Working[k + 1], p[1], p[2]) = "body")
                 => /\ selection' = (IF InSeq(k, selection) THEN selection ELSE <<k>>)
                    /\ relativeCoordinates'.kind = "dict"
                    /\ \A m \in 1..Len(selection') :
                         LET idx == selection'[m] IN
                         /\ idx < Len(Working)
                         /\ idx \in DOMAIN relativeCoordinates'.dict
                         /\ relativeCoordinates'.dict[idx] =
                               << Working[idx + 1].coordinates[1][1] - p[1],
                                  Working[idx + 1].coordinates[1][2] - p[2] >>
            /\ (k < 0)
                 => /\ selection' = <<>>
                    /\ newRoi'.coordinates[1] = <<p[1], p[2]>> ]_vars

\* C21: every Roi that is a member of the working collection has its draft flag
\* (status) cleared, in every state of an open editing session.
C21_MembersNotDraft ==
    roiWindow => \A i \in 1..Len(Working) : ~Working[i].status

\* progress_percent = (rendered_video / total_crops) * 100 for a reported count k, kept
\* exact as the pair (numerator, denominator) of the percentage.
progress_percent(k) == <<k * 100, total_crops>>

\* No value handed to the progress bar exceeds 100%.
ProgressWithin100 ==
    \A k \in DOMAIN progress :
        progress_percent(progress[k])[1] <= 100 * progress_percent(progress[k])[2]

\* Some value handed to the progress bar is 100%.
Reported100 ==
    \E k \in DOMAIN progress :
        progress_percent(progress[k])[1] = 100 * progress_percent(progress[k])[2]

\* The run has got through all of its jobs and none of them failed.
EveryJobSucceeded == submitted = AllJobs /\ failedJobs = <<>>

\* C22: in a batch run the total is the sum of the ROI counts of all videos and is fixed
\* before the first job; the completed counter starts at 0 and goes up by exactly one
\* in a step that runs a job successfully and stays in every other step; hence
\* 0 <= completed <= total, no reported progress exceeds 100%, and (for a run with at
\* least one job) 100% is reported exactly when every job has run and succeeded.
C22_CountersAndProgress ==
    [][ /\ (cropPc # "loop" /\ cropPc' = "loop")
            => /\ total_crops' = Len(AllJobs)
               /\ rendered_video' = 0
               /\ submitted' = <<>>
        /\ cropPc = "loop"
            => /\ total_crops' = total_crops
               /\ rendered_video' = rendered_video
                     + (IF Len(submitted') = Len(submitted) + 1 /\ failedJobs' = failedJobs
                        THEN 1 ELSE 0)
        /\ cropPc' \in {"loop", "done", "fatal"}
            => /\ 0 <= rendered_video' /\ rendered_video' <= total_crops'
               /\ ProgressWithin100'
               /\ total_crops' > 0 => (Reported100' <=> EveryJobSucceeded')
      ]_vars

\* A finished run of three jobs over two videos, all successful, that reported 100%.
C22_Witness ==
    /\ cropPc = "done"
    /\ total_crops = 3
    /\ rendered_video = 3
    /\ Len(progress) = 3
    /\ progress_percent(progress[3]) = <<300, 3>>
    /\ EveryJobSucceeded

\* s is an initial part of t.
IsPrefix(s, t) == Len(s) <= Len(t) /\ \A k \in DOMAIN s : s[k] = t[k]

\* What a complete run does with captures and jobs, from position k of the video
\* order on: per video with a non-empty list, open, one job per Roi in list order
\* numbered from 1, release.
RECURSIVE ExpectedLogFrom(_)
ExpectedLogFrom(k) ==
    IF k > Len(VideoOrder) THEN <<>>
    ELSE (IF RoiCount(k) = 0 THEN <<>>
          ELSE <<<<"open", VideoOrder[k], 0>>>>
               \o [i \in 1..RoiCount(k) |-> <<"job", VideoOrder[k], i>>]
               \o <<<<"release", VideoOrder[k], 0>>>>)
         \o ExpectedLogFrom(k + 1)

\* C23: in a batch run that is not aborted every (video, Roi) pair of the videos with
\* ROIs is handed to ffmpeg exactly once, per video in list order with i counting from
\* 1; the capture of a video is opened once, before its first job, and released after
\* its last job and before the next video's capture is opened, so that at most one
\* capture is open at any time and none when the run is over.
C23_JobsOnceCapturePerVideo ==
    /\ cropPc \in {"loop", "done"}
        => /\ Cardinality(openCaps) <= 1
           /\ IsPrefix(cropLog, ExpectedLogFrom(1))
           /\ IsPrefix(submitted, AllJobs)
           /\ (cropVideo # 0 /\ cropI > 0) => openCaps = {VideoOrder[cropVideo]}
    /\ cropPc = "done"
        => /\ cropLog = ExpectedLogFrom(1)
           /\ submitted = AllJobs
           /\ openCaps = {}

\* A finished run over two videos with two ROIs each, one job of which failed.
C23_Witness ==
    /\ cropPc = "done"
    /\ Len(cropLog) = 8
    /\ cropLog[4] = <<"release", "a.mp4", 0>>
    /\ cropLog[5] = <<"open", "b.mp4", 0>>
    /\ Len(failedJobs) = 1
    /\ openCaps = {}

\* The Roi of the k-th job handed to ffmpeg in the current run.
JobRoi(k) == objs[lists[roi_dict[submitted[k][1]]][submitted[k][2]]]

\* C24: every crop job handed to ffmpeg, for ROIs drawn and saved in an editing
\* session, has the crop filter (width, height, x1, y1) with width >= 0, height >= 0
\* and (x1, y1) the minimum corner of the Roi.
C24_CropFromNormalizedCorners ==
    lastEvent.kind = "cropJob" =>
        \A k \in DOMAIN filters :
            /\ filters[k][1] >= 0
            /\ filters[k][2] >= 0
            /\ filters[k][3] = Min2(JobRoi(k).coordinates[1][1], JobRoi(k).coordinates[2][1])
            /\ filters[k][4] = Min2(JobRoi(k).coordinates[1][2], JobRoi(k).coordinates[2][2])

\* The settings file names a video path that is not a valid video reference.
HasBadPath(file) == \E k \in 1..Len(file) : ~validate_video_path(file[k][1])

\* C25: importing a settings file that contains a malformed video reference shows an
\* error and leaves the host's per-video ROI map as it was before the import.
C25_BadSettingsImportRejected ==
    [][ \A f \in SettingsFiles : \A r \in BOOLEAN :
           (import_roi_dict(f, r) /\ HasBadPath(f))
               => /\ lastEvent'.arg.error # ""
                  /\ HostView' = HostView ]_vars

\* The index held by the active interaction (the resize's when both are set).
ActiveIndex == IF resizing # None THEN resizing[1] ELSE dragging[1]

\* C26: while the button is held and a resize or drag is active, the index it holds
\* is a valid index of the working collection and the collection still has the
\* entries it had at the down event (so the index refers to the Roi that was hit),
\* whatever keyboard events arrive between the down and the up.
C26_ActiveIndexStaysValid ==
    (roiWindow /\ button = "down" /\ downSnap # NoSnap
        /\ (resizing # None \/ dragging # None))
        => /\ ActiveIndex < Len(Working)
           /\ Len(Working) = Len(downSnap.rois)

\* Every selected index has an offset recorded in relativeCoordinates.
OffsetsCoverSelection ==
    /\ relativeCoordinates.kind = "dict"
    /\ \A k \in 1..Len(selection) : selection[k] \in DOMAIN relativeCoordinates.dict

\* C27: at every move made while Dragging (button held, a drag and no resize active),
\* every index of the selection has a recorded offset, also when selectAll or a
\* shift-down has changed the selection since the down event.
C27_OffsetsCoverSelectionAtMove ==
    [][ (lastEvent'.kind = "leftMouseMove" /\ events' = events + 1
         /\ button = "down" /\ dragging # None /\ resizing = None)
            => OffsetsCoverSelection ]_vars

\* C28: in every state of an editing session the selection holds no index twice and
\* every selected index is a valid index of the working collection.
C28_SelectionValid ==
    roiWindow =>
        /\ \A j \in 1..Len(selection) : \A k \in 1..Len(selection) :
               j # k => selection[j] # selection[k]
        /\ \A k \in 1..Len(selection) : 0 <= selection[k] /\ selection[k] < Len(Working)

\* The step is an unmodified up that makes the working collection one longer.
UpAppends ==
    /\ lastEvent'.kind = "leftMouseUp"
    /\ events' = events + 1
    /\ Len(lists'[roiCoordinates']) = Len(lists[roiCoordinates]) + 1

\* C29: an unmodified up appends a Roi only when the press it ends was an unmodified
\* down that hit no Roi: not when the press was a shift-down, not when a drag or
\* resize is active; and after a press followed by moves only, the first corner of
\* the appended Roi is the point of that down event.
C29_AppendOnlyAfterDraftDown ==
    [][ UpAppends
          => /\ lastEvent.kind # "shiftLeftMouseDown"
             /\ dragging = None /\ resizing = None
             /\ downSnap # NoSnap
             /\ PureGesture
                  => objs'[lists'[roiCoordinates'][Len(lists'[roiCoordinates'])]].coordinates[1]
                        = <<downSnap.x, downSnap.y>> ]_vars

\* C30: saving an editing session writes the working collection to the host map entry
\* of the video the session was opened for and changes no other entry, also when the
\* host's working video has been changed by another action since the session opened.
C30_SaveWritesOpenedVideoOnly ==
    [][ (lastEvent'.kind = "saveRois" /\ events' = events + 1)
          => /\ openedFor \in DOMAIN roi_dict'
             /\ HostView'[openedFor] = Working
             /\ \A v \in (DOMAIN roi_dict) \cup (DOMAIN roi_dict') :
                   v # openedFor
                     => /\ v \in DOMAIN roi_dict
                        /\ v \in DOMAIN roi_dict'
                        /\ HostView'[v] = HostView[v] ]_vars

\* C31: within one batch run, jobs for distinct (video, Roi index) pairs have distinct
\* output paths, so that no job overwrites the output of another, also for videos in
\* different directories that share a base name.
C31_DistinctOutputPaths ==
    \A j \in DOMAIN submitted : \A k \in DOMAIN submitted :
        submitted[j] # submitted[k]
            => output_path(output_folder, submitted[j][1], submitted[j][2])
                 # output_path(output_folder, submitted[k][1], submitted[k][2])

\* C32: when a batch run that passed its checks has ended, by normal completion, with
\* failed jobs or by the fatal return after a directory could not be created, every
\* capture it opened has been released, the main window is enabled again and the
\* progress window is closed.
C32_RunEndsCleanedUp ==
    cropPc \in {"done", "fatal"}
        => /\ openCaps = {}
           /\ ~masterDisabled
           /\ ~progress_window

====
